---- MODULE Spec2Model ----
(***************************************************************************)
(* Model of the traffic-light detector node                               *)
(* (src/ros/src/tl_detector/tl_detector.py, class TLDetector).             *)
(*                                                                         *)
(* Positions are triples <<x, y, z>> of integers.  A pose is a record      *)
(* [position, orientation] whose orientation is a quaternion <<x,y,z,w>>.  *)
(* A light is a record [position, state].  Python's None is the empty      *)
(* sequence <<>> and a present value v is <<v>>.  Waypoint and light        *)
(* indices are 0-based as in the Python code; TLA+ sequences are 1-based,   *)
(* so element i of a Python list l is l[i + 1].                            *)
(***************************************************************************)
EXTENDS Integers, Sequences, FiniteSets, TLC

VARIABLES
    pose,            \* self.pose: <<>> (None) or <<[position, orientation]>>
    waypoints,       \* self.waypoints: sequence of positions
    lights,          \* self.lights: sequence of [position, state]
    subscribed,      \* base_wp_sub is still registered
    has_image,       \* self.has_image (set by image_cb)
    state,           \* self.state: colour observed in the previous cycle
    last_state,      \* self.last_state: last stable colour
    last_wp,         \* self.last_wp: last committed waypoint
    state_count,     \* self.state_count
    light_waypoints, \* self.light_waypoints: one sequence of indices per light
    light_indexed,   \* self.light_indexed
    th,              \* waypoints_cb / traffic_cb threads: position and locals
    published,       \* values sent on /traffic_waypoint by the latest callback
    error,           \* exception raised by the latest callback ("none" if none)
    located,         \* value returned by the latest get_closest_light call
    hist,            \* raw colours of the most recent completed image cycles
    build_count,     \* number of times index_lights has been entered
    event,           \* the callback or method that ran last
    prev_wp          \* last_wp as it was before the latest image cycle

vars == <<pose, waypoints, lights, subscribed, has_image, state, last_state,
          last_wp, state_count, light_waypoints, light_indexed, th,
          published, error, located, hist, build_count, event, prev_wp>>

----------------------------------------------------------------------------
(* Program constants *)

STATE_COUNT_THRESHOLD == 3

UNKNOWN == "UNKNOWN"
RED == "RED"
YELLOW == "YELLOW"
GREEN == "GREEN"
Colors == {UNKNOWN, RED, YELLOW, GREEN}

----------------------------------------------------------------------------
(* Bounds of the model *)

MaxCoord == 1       \* x coordinates of generated positions range over 0..MaxCoord
MaxWaypoints == 3   \* longest generated waypoint sequence
MaxLights == 2      \* longest generated light list
MaxCount == 5       \* image_cb is not run once state_count has reached this
MaxCycles == 6      \* image cycles of the scenario specification

----------------------------------------------------------------------------
(* Vector helpers (numpy arithmetic on exact integers) *)

Sub(a, b) == <<a[1] - b[1], a[2] - b[2], a[3] - b[3]>>
Dot(a, b) == a[1] * b[1] + a[2] * b[2] + a[3] * b[3]

\* np.matmul(v, M) for a 4-vector v and a 4x4 matrix M: a row vector times M.
MatMul(v, M) ==
    [j \in 1..4 |-> v[1] * M[1][j] + v[2] * M[2][j] + v[3] * M[3][j] + v[4] * M[4][j]]

\* tf.transformations.quaternion_matrix(q): q is scaled by sqrt(2 / (q.q)),
\* so entry (i, j) of the outer product is 2 q_i q_j / (q.q).  The model
\* uses integer quaternions for which this quotient is exact; the matrix is
\* the same for every positive multiple of q, the unit quaternion included.
quaternion_matrix(q) ==
    LET nq == q[1] * q[1] + q[2] * q[2] + q[3] * q[3] + q[4] * q[4]
        o(i, j) == (2 * q[i] * q[j]) \div nq
    IN  IF nq = 0
        THEN << <<1, 0, 0, 0>>, <<0, 1, 0, 0>>, <<0, 0, 1, 0>>, <<0, 0, 0, 1>> >>
        ELSE << <<1 - o(2, 2) - o(3, 3), o(1, 2) - o(3, 4), o(1, 3) + o(2, 4), 0>>,
                <<o(1, 2) + o(3, 4), 1 - o(1, 1) - o(3, 3), o(2, 3) - o(1, 4), 0>>,
                <<o(1, 3) - o(2, 4), o(2, 3) + o(1, 4), 1 - o(1, 1) - o(2, 2), 0>>,
                <<0, 0, 0, 1>> >>

\* Quaternions of the four axis-aligned yaws about z (integer multiples of
\* the unit quaternions (0, 0, sin(a/2), cos(a/2))).
Yaw0 == <<0, 0, 0, 1>>
Yaw90 == <<0, 0, 1, 1>>
Yaw180 == <<0, 0, 1, 0>>
Yaw270 == <<0, 0, -1, 1>>
Yaws == {Yaw0, Yaw90, Yaw180, Yaw270}

----------------------------------------------------------------------------
(* index_lights *)

\* (light_pos.x - wp_pos.x)**2 + (light_pos.y - wp_pos.y)**2 + (light_pos.z - wp_pos.z)**2
SqDist(a, b) ==
      (a[1] - b[1]) * (a[1] - b[1])
    + (a[2] - b[2]) * (a[2] - b[2])
    + (a[3] - b[3]) * (a[3] - b[3])

\* The list of pairs (i, distance) built by the inner loop for one light.
Distances(light, wps) ==
    [i \in 1..Len(wps) |-> <<i - 1, SqDist(light.position, wps[i])>>]

\* InsertByKey with a sort that is not stable: d goes before equal keys.
RECURSIVE InsertByKeyUnstable(_, _)
InsertByKeyUnstable(s, d) ==
    IF s = <<>> THEN <<d>>
    ELSE IF s[Len(s)][2] < d[2] THEN Append(s, d)
    ELSE Append(InsertByKeyUnstable(SubSeq(s, 1, Len(s) - 1), d), s[Len(s)])

\* Insert pair d into the sorted sequence s after every element whose key is
\* less than or equal to d's key (list.sort is stable).
RECURSIVE InsertByKey(_, _)
InsertByKey(s, d) ==
    IF s = <<>> THEN <<d>>
    ELSE IF s[Len(s)][2] <= d[2] THEN Append(s, d)
    ELSE Append(InsertByKey(SubSeq(s, 1, Len(s) - 1), d), s[Len(s)])

\* distances.sort(key=lambda d: d[1])
RECURSIVE SortByKey(_)
SortByKey(s) ==
    IF s = <<>> THEN <<>>
    ELSE InsertByKey(SortByKey(SubSeq(s, 1, Len(s) - 1)), s[Len(s)])

\* The entry appended to light_waypoints for one light.
WaypointIndices(light, wps) ==
    LET sorted == SortByKey(Distances(light, wps))
    IN  [k \in 1..Len(sorted) |-> sorted[k][1]]

\* index_lights run to completion: one entry appended per light, in order.
index_lights(lw, ls, wps) ==
    lw \o [k \in 1..Len(ls) |-> WaypointIndices(ls[k], wps)]

----------------------------------------------------------------------------
(* get_closest_light *)

\* ego_dir = np.matmul(init_dir, rot)[:3] with init_dir = [1, 0, 0, 0]
EgoDir(p) ==
    LET rot == quaternion_matrix(p.orientation)
        v == MatMul(<<1, 0, 0, 0>>, rot)
    IN  <<v[1], v[2], v[3]>>

\* np.dot(ego_dir, light_dir) > 0
IsAhead(ego_dir, light_dir) == Dot(ego_dir, light_dir) > 0

\* np.linalg.norm(ego_pos - light_pos), kept as its square: the square root
\* is strictly increasing, so comparisons of norms are comparisons of squares.
NormSq(v) == Dot(v, v)

\* Closer with <= for <: the last of several nearest lights would win.
CloserOrEqual(distance, min_dist) == min_dist = <<>> \/ distance <= min_dist[1]

\* distance < min_dist, where min_dist is <<>> for float('inf')
Closer(distance, min_dist) == min_dist = <<>> \/ distance < min_dist[1]

\* The loop over enumerate(self.lights), from the i-th light (1-based) on.
RECURSIVE ClosestLoop(_, _, _, _, _, _)
ClosestLoop(ls, i, ego_pos, ego_dir, min_dist, light_index) ==
    IF i > Len(ls) THEN light_index
    ELSE LET light_pos == ls[i].position
             light_dir == Sub(light_pos, ego_pos)
             distance == NormSq(Sub(ego_pos, light_pos))
         IN  IF IsAhead(ego_dir, light_dir) /\ Closer(distance, min_dist)
             THEN ClosestLoop(ls, i + 1, ego_pos, ego_dir, <<distance>>, <<i - 1>>)
             ELSE ClosestLoop(ls, i + 1, ego_pos, ego_dir, min_dist, light_index)

\* get_closest_light: <<>> (None) or <<index of the light>>
get_closest_light(p, ls) ==
    ClosestLoop(ls, 1, p.position, EgoDir(p), <<>>, <<>>)

----------------------------------------------------------------------------
(* process_traffic_lights *)

\* get_light_state: the ground-truth colour of the light is passed through.
get_light_state(hasimg, light) == IF ~hasimg THEN "False" ELSE light.state

\* get_light_wp raises IndexError when light_waypoints has no entry for the
\* light, or the entry is empty.
LightWpRaises(lw, i) == i + 1 > Len(lw) \/ lw[i + 1] = <<>>

\* get_light_wp returning the last element of the entry, not the first.
GetLightWpFarthest(lw, i) == lw[i + 1][Len(lw[i + 1])]

\* way_points[0] of self.light_waypoints[light_index]
get_light_wp(lw, i) == lw[i + 1][1]

\* Result of process_traffic_lights: the light located, whether an exception
\* left the function, and otherwise the pair (light_wp, state) returned.
process_traffic_lights(po, ls, lw, hasimg) ==
    LET light_index == IF po # <<>> THEN get_closest_light(po[1], ls) ELSE <<>>
    IN  IF light_index # <<>>
        THEN IF LightWpRaises(lw, light_index[1])
             THEN [light_index |-> light_index, raised |-> TRUE,
                   light_wp |-> -1, state |-> UNKNOWN]
             ELSE [light_index |-> light_index, raised |-> FALSE,
                   light_wp |-> get_light_wp(lw, light_index[1]),
                   state |-> get_light_state(hasimg, ls[light_index[1] + 1])]
        ELSE [light_index |-> light_index, raised |-> FALSE,
              light_wp |-> -1, state |-> UNKNOWN]

----------------------------------------------------------------------------
(* image_cb: the debouncer *)

\* Commits with the threshold ignored after the first repetition.
CommitsEarly(count) == count >= 1

\* Commits with == for >=: only the cycle that reaches the threshold commits.
CommitsOnce(count) == count = STATE_COUNT_THRESHOLD

\* elif self.state_count >= STATE_COUNT_THRESHOLD
Commits(count) == count >= STATE_COUNT_THRESHOLD

\* CommittedWp without the test of the colour: the waypoint for every colour.
CommittedWpAlways(light_wp, st) == light_wp

\* CommittedWp that never keeps the waypoint.
CommittedWpNever(light_wp, st) == -1

\* light_wp if state == TrafficLight.RED else -1
CommittedWp(light_wp, st) == IF st = RED THEN light_wp ELSE -1

\* CountAfter without the reset of the counter on a change of colour.
CountAfterNoReset(differs, count) == count + 1

\* state_count at the end of image_cb: set to 0 if the colour differs from
\* the previous cycle's, then incremented in every cycle.
CountAfter(differs, count) == (IF differs THEN 0 ELSE count) + 1

\* Image cycles remembered in hist by Spec: as many as the threshold counts.
HistWindow == STATE_COUNT_THRESHOLD

\* The last h elements of s.
Window(s, h) == IF Len(s) <= h THEN s ELSE SubSeq(s, Len(s) - h + 1, Len(s))

\* image_cb, remembering the raw colours of the last h completed cycles.
ImageCb(h) ==
    LET r == process_traffic_lights(pose, lights, light_waypoints, TRUE)
    IN  /\ th["waypoints_cb"].pc = "idle" /\ th["traffic_cb"].pc = "idle"
        /\ r.raised \/ state # r.state \/ state_count < MaxCount
        /\ event' = "image_cb"
        /\ prev_wp' = last_wp
        /\ has_image' = TRUE
        /\ located' = IF pose # <<>> THEN r.light_index ELSE located
        /\ IF r.raised
           THEN /\ error' = "IndexError"
                /\ published' = <<>>
                /\ UNCHANGED <<state, last_state, last_wp, state_count, hist>>
           ELSE /\ error' = "none"
                /\ hist' = Window(Append(hist, r.state), h)
                /\ IF state # r.state
                   THEN /\ state' = r.state
                        /\ state_count' = CountAfter(TRUE, state_count)
                        /\ published' = <<>>
                        /\ UNCHANGED <<last_state, last_wp>>
                   ELSE IF Commits(state_count)
                   THEN /\ last_state' = state
                        /\ last_wp' = CommittedWp(r.light_wp, r.state)
                        /\ published' = <<CommittedWp(r.light_wp, r.state)>>
                        /\ state_count' = CountAfter(FALSE, state_count)
                        /\ UNCHANGED state
                   ELSE /\ published' = <<last_wp>>
                        /\ state_count' = CountAfter(FALSE, state_count)
                        /\ UNCHANGED <<state, last_state, last_wp>>
        /\ UNCHANGED <<pose, waypoints, lights, subscribed, light_waypoints,
                       light_indexed, th, build_count>>

----------------------------------------------------------------------------
(* pose_cb, waypoints_cb, traffic_cb run to completion *)

Idle == th["waypoints_cb"].pc = "idle" /\ th["traffic_cb"].pc = "idle"

\* pose_cb that also republishes the last waypoint.
PoseCbPublishes(p) ==
    /\ Idle
    /\ pose' = <<p>>
    /\ event' = "pose_cb"
    /\ published' = <<last_wp>>
    /\ error' = "none"
    /\ UNCHANGED prev_wp
    /\ UNCHANGED <<waypoints, lights, subscribed, has_image, state, last_state,
                   last_wp, state_count, light_waypoints, light_indexed, th,
                   located, hist, build_count>>

PoseCb(p) ==
    /\ Idle
    /\ pose' = <<p>>
    /\ event' = "pose_cb"
    /\ published' = <<>>
    /\ error' = "none"
    /\ UNCHANGED prev_wp
    /\ UNCHANGED <<waypoints, lights, subscribed, has_image, state, last_state,
                   last_wp, state_count, light_waypoints, light_indexed, th,
                   located, hist, build_count>>

\* MustIndex without the test of light_indexed.
MustIndexAlways(wps, ls, indexed) == wps # <<>> /\ ls # <<>>

\* MustIndex without the test of the light list.
MustIndexNoLights(wps, ls, indexed) == wps # <<>> /\ ~indexed

\* if self.waypoints and self.lights and not self.light_indexed
MustIndex(wps, ls, indexed) == wps # <<>> /\ ls # <<>> /\ ~indexed

\* The guarded call of index_lights shared by waypoints_cb and traffic_cb.
GuardedIndex(wps, ls) ==
    IF MustIndex(wps, ls, light_indexed)
    THEN /\ light_waypoints' = index_lights(light_waypoints, ls, wps)
         /\ light_indexed' = TRUE
         /\ build_count' = build_count + 1
    ELSE UNCHANGED <<light_waypoints, light_indexed, build_count>>

\* waypoints_cb without the call of unregister.
WaypointsCbStaysSubscribed(msg) ==
    /\ Idle
    /\ subscribed
    /\ waypoints' = msg
    /\ subscribed' = subscribed
    /\ GuardedIndex(msg, lights)
    /\ event' = "waypoints_cb"
    /\ published' = <<>>
    /\ error' = "none"
    /\ UNCHANGED prev_wp
    /\ UNCHANGED <<pose, lights, has_image, state, last_state, last_wp,
                   state_count, th, located, hist>>

\* waypoints_cb; the subscriber delivers only while it is registered.
WaypointsCb(msg) ==
    /\ Idle
    /\ subscribed
    /\ waypoints' = msg
    /\ subscribed' = FALSE
    /\ GuardedIndex(msg, lights)
    /\ event' = "waypoints_cb"
    /\ published' = <<>>
    /\ error' = "none"
    /\ UNCHANGED prev_wp
    /\ UNCHANGED <<pose, lights, has_image, state, last_state, last_wp,
                   state_count, th, located, hist>>

TrafficCb(msg) ==
    /\ Idle
    /\ lights' = msg
    /\ GuardedIndex(waypoints, msg)
    /\ event' = "traffic_cb"
    /\ published' = <<>>
    /\ error' = "none"
    /\ UNCHANGED prev_wp
    /\ UNCHANGED <<pose, waypoints, subscribed, has_image, state, last_state,
                   last_wp, state_count, th, located, hist>>

\* A direct call of get_closest_light; it reads self.pose, which must be set.
GetClosestLight ==
    /\ Idle
    /\ pose # <<>>
    /\ located' = get_closest_light(pose[1], lights)
    /\ event' = "get_closest_light"
    /\ published' = <<>>
    /\ error' = "none"
    /\ UNCHANGED prev_wp
    /\ UNCHANGED <<pose, waypoints, lights, subscribed, has_image, state,
                   last_state, last_wp, state_count, light_waypoints,
                   light_indexed, th, hist, build_count>>

----------------------------------------------------------------------------
(* State after __init__ *)

IdleThread == [pc |-> "idle", it |-> <<>>, k |-> 0]

Init ==
    /\ pose = <<>>
    /\ waypoints = <<>>
    /\ lights = <<>>
    /\ subscribed = TRUE
    /\ has_image = FALSE
    /\ state = UNKNOWN
    /\ last_state = UNKNOWN
    /\ last_wp = -1
    /\ state_count = 0
    /\ light_waypoints = <<>>
    /\ light_indexed = FALSE
    /\ th = [t \in {"waypoints_cb", "traffic_cb"} |-> IdleThread]
    /\ published = <<>>
    /\ error = "none"
    /\ located = <<>>
    /\ hist = <<>>
    /\ build_count = 0
    /\ event = "init"
    /\ prev_wp = -1

----------------------------------------------------------------------------
(* Inputs of the route scenario: three waypoints on the x axis, lights at   *)
(* the second and third of them.                                           *)

Light(pos, st) == [position |-> pos, state |-> st]
Pose(pos, q) == [position |-> pos, orientation |-> q]

RouteWaypoints == << <<0, 0, 0>>, <<1, 0, 0>>, <<2, 0, 0>> >>
WaypointMsgs == {<<>>, RouteWaypoints}

OneLightMsgs == {<<Light(<<1, 0, 0>>, c)>> : c \in Colors}
TwoLightMsgs ==
    {<<Light(<<1, 0, 0>>, c), Light(<<2, 0, 0>>, d)>> : c \in Colors, d \in {RED, GREEN}}
LightMsgs == {<<>>} \cup OneLightMsgs \cup TwoLightMsgs

PoseMsgs ==
    {Pose(<<0, 0, 0>>, Yaw0), Pose(<<1, 0, 0>>, Yaw0), Pose(<<0, 0, 0>>, Yaw180)}

Next ==
    \/ \E p \in PoseMsgs : PoseCb(p)
    \/ \E msg \in WaypointMsgs : WaypointsCb(msg)
    \/ \E msg \in LightMsgs : TrafficCb(msg)
    \/ ImageCb(HistWindow)

Spec == Init /\ [][Next]_vars

----------------------------------------------------------------------------
(* The debounce scenario: the route, one light at the second waypoint, the *)
(* vehicle at the first waypoint facing +x; hist keeps every image cycle.   *)

NextScenario ==
    \/ PoseCb(Pose(<<0, 0, 0>>, Yaw0))
    \/ WaypointsCb(RouteWaypoints)
    \/ \E msg \in OneLightMsgs : TrafficCb(msg)
    \/ (Len(hist) < MaxCycles /\ ImageCb(MaxCycles))

SpecScenario == Init /\ [][NextScenario]_vars

----------------------------------------------------------------------------
(* Generated inputs: every waypoint sequence and light list up to a length *)
(* over a small grid of positions, and every axis-aligned pose on the grid. *)

SeqsUpTo(S, n) == UNION {[1..k -> S] : k \in 1..n}

GridPositions == {<<x, y, 0>> : x \in 0..MaxCoord, y \in {0, 1}}
WaypointPositions == {<<x, 0, 0>> : x \in 0..MaxCoord} \cup {<<0, 1, 1>>}
LightPositions == GridPositions \cup {<<1, 0, 1>>}

GenWaypointMsgs == SeqsUpTo(WaypointPositions, MaxWaypoints)
GenLightMsgs ==
    {[k \in 1..Len(ps) |-> Light(ps[k], RED)] : ps \in SeqsUpTo(LightPositions, MaxLights)}
GenPoseMsgs == {Pose(p, q) : p \in GridPositions, q \in Yaws}

\* Deliveries of waypoints and lights up to the build of the index.
NextIndex ==
    \/ \E msg \in GenWaypointMsgs : WaypointsCb(msg)
    \/ (~light_indexed /\ \E msg \in GenLightMsgs : TrafficCb(msg))

SpecIndex == Init /\ [][NextIndex]_vars

\* Deliveries of poses and lights, and calls of get_closest_light.
NextLocate ==
    \/ \E p \in GenPoseMsgs : PoseCb(p)
    \/ \E msg \in GenLightMsgs \cup {<<>>} : TrafficCb(msg)
    \/ GetClosestLight

SpecLocate == Init /\ [][NextLocate]_vars

----------------------------------------------------------------------------
(* waypoints_cb and traffic_cb on their own threads, one statement a step  *)

SetTh(t, r) == [th EXCEPT ![t] = r]

\* self.waypoints = msg.waypoints
WStart(msg) ==
    /\ th["waypoints_cb"].pc = "idle"
    /\ subscribed
    /\ waypoints' = msg
    /\ th' = SetTh("waypoints_cb", [pc |-> "unregister", it |-> <<>>, k |-> 0])
    /\ event' = "waypoints_cb"
    /\ published' = <<>>
    /\ error' = "none"
    /\ UNCHANGED prev_wp
    /\ UNCHANGED <<pose, lights, subscribed, has_image, state, last_state, last_wp,
                   state_count, light_waypoints, light_indexed, located, hist,
                   build_count>>

\* self.base_wp_sub.unregister()
WUnregister ==
    /\ th["waypoints_cb"].pc = "unregister"
    /\ subscribed' = FALSE
    /\ th' = SetTh("waypoints_cb", [pc |-> "check", it |-> <<>>, k |-> 0])
    /\ UNCHANGED event
    /\ UNCHANGED prev_wp
    /\ UNCHANGED <<pose, waypoints, lights, has_image, state, last_state, last_wp,
                   state_count, light_waypoints, light_indexed, published, error,
                   located, hist, build_count>>

\* self.lights = msg.lights
TStart(msg) ==
    /\ th["traffic_cb"].pc = "idle"
    /\ lights' = msg
    /\ th' = SetTh("traffic_cb", [pc |-> "check", it |-> <<>>, k |-> 0])
    /\ event' = "traffic_cb"
    /\ published' = <<>>
    /\ error' = "none"
    /\ UNCHANGED prev_wp
    /\ UNCHANGED <<pose, waypoints, subscribed, has_image, state, last_state,
                   last_wp, state_count, light_waypoints, light_indexed, located,
                   hist, build_count>>

\* The if of either callback; entering index_lights creates the iterator
\* of "for light in self.lights" over the list held at that moment.
Check(t) ==
    /\ th[t].pc = "check"
    /\ IF MustIndex(waypoints, lights, light_indexed)
       THEN /\ th' = SetTh(t, [pc |-> "loop", it |-> lights, k |-> 0])
            /\ build_count' = build_count + 1
       ELSE /\ th' = SetTh(t, IdleThread)
            /\ UNCHANGED build_count
    /\ UNCHANGED event
    /\ UNCHANGED prev_wp
    /\ UNCHANGED <<pose, waypoints, lights, subscribed, has_image, state,
                   last_state, last_wp, state_count, light_waypoints,
                   light_indexed, published, error, located, hist>>

\* One iteration of the loop over the lights: an entry is appended.
LoopStep(t) ==
    /\ th[t].pc = "loop"
    /\ th[t].k < Len(th[t].it)
    /\ light_waypoints' =
           Append(light_waypoints, WaypointIndices(th[t].it[th[t].k + 1], waypoints))
    /\ th' = SetTh(t, [th[t] EXCEPT !.k = @ + 1])
    /\ UNCHANGED event
    /\ UNCHANGED prev_wp
    /\ UNCHANGED <<pose, waypoints, lights, subscribed, has_image, state,
                   last_state, last_wp, state_count, light_indexed, published,
                   error, located, hist, build_count>>

\* self.light_indexed = True, after the loop; the callback returns.
SetIndexed(t) ==
    /\ th[t].pc = "loop"
    /\ th[t].k = Len(th[t].it)
    /\ light_indexed' = TRUE
    /\ th' = SetTh(t, IdleThread)
    /\ UNCHANGED event
    /\ UNCHANGED prev_wp
    /\ UNCHANGED <<pose, waypoints, lights, subscribed, has_image, state,
                   last_state, last_wp, state_count, light_waypoints, published,
                   error, located, hist, build_count>>

Threads == {"waypoints_cb", "traffic_cb"}

NextConc ==
    \/ \E msg \in WaypointMsgs : WStart(msg)
    \/ WUnregister
    \/ \E msg \in LightMsgs : TStart(msg)
    \/ \E t \in Threads : Check(t)
    \/ \E t \in Threads : LoopStep(t)
    \/ \E t \in Threads : SetIndexed(t)

SpecConc == Init /\ [][NextConc]_vars

----------------------------------------------------------------------------
(* Claims *)

\* C1: from the initial state, with the light at waypoint 1 located in
\* every cycle, the raw observations RED, RED, GREEN, RED, RED, RED make the
\* sixth cycle commit RED: last_state = RED, last_wp = 1 and 1 is published.
C1_SixthSampleCommitsRed ==
    (event = "image_cb" /\ error = "none"
        /\ hist = <<RED, RED, GREEN, RED, RED, RED>>)
    => (last_state = RED /\ last_wp = 1 /\ published = <<1>>)

\* The last n raw observations, the one of this cycle included, are all c.
LastObsAre(h, n, c) ==
    Len(h) >= n /\ \A i \in (Len(h) - n + 1)..Len(h) : h[i] = c

\* The light located by a cycle, if any, is one whose head waypoint is w.
LocatesNoneOr(loc, lw, w) ==
    loc = <<>> \/ loc[1] + 1 > Len(lw) \/ lw[loc[1] + 1] = <<>> \/ lw[loc[1] + 1][1] = w

\* C2: once RED is committed with waypoint w and the same light stays
\* located, an image cycle publishes nothing but w and keeps last_wp = w,
\* unless a colour other than RED has been the raw observation of the last
\* STATE_COUNT_THRESHOLD cycles: a shorter run of other colours followed by
\* RED never changes the stop decision.
C2_RedStopSurvivesShortRuns ==
    [][(event' = "image_cb" /\ last_state = RED /\ last_wp # -1
            /\ LocatesNoneOr(located', light_waypoints, last_wp))
        => \/ (last_wp' = last_wp /\ \A i \in 1..Len(published') : published'[i] = last_wp)
           \/ \E c \in Colors \ {RED} : LastObsAre(hist', STATE_COUNT_THRESHOLD, c)]_vars

\* C2 witness: RED was committed with waypoint 1, one GREEN cycle passed and
\* RED is back for its second cycle, which publishes the kept waypoint 1.
C2_Witness ==
    /\ event = "image_cb" /\ error = "none"
    /\ last_state = RED /\ last_wp = 1
    /\ hist = <<GREEN, RED, RED>>
    /\ state_count = 2
    /\ published = <<1>>

\* C3: with the route, one RED light at (1,0,0), the vehicle at (0,0,0)
\* facing +x and the index built, the third image cycle from the initial
\* state publishes waypoint 1.
C3_ThirdRedCyclePublishesStop ==
    (event = "image_cb" /\ error = "none" /\ light_indexed
        /\ waypoints = RouteWaypoints
        /\ pose = <<Pose(<<0, 0, 0>>, Yaw0)>>
        /\ lights = <<Light(<<1, 0, 0>>, RED)>>
        /\ hist = <<RED, RED, RED>>)
    => published = <<1>>

\* C4: every image cycle that runs to its end publishes exactly one value.
C4_EveryCyclePublishesOnce ==
    (event = "image_cb" /\ error = "none") => Len(published) = 1

\* C5: an image cycle that runs before the index is built raises no error
\* and publishes nothing but the sentinel -1.
C5_CycleBeforeIndexDegrades ==
    (event = "image_cb" /\ ~light_indexed)
    => (error = "none" /\ \A i \in 1..Len(published) : published[i] = -1)

\* C6: under every interleaving of the statements of waypoints_cb and
\* traffic_cb, index_lights is entered at most once.
C6_BuildAtMostOnce == build_count <= 1

\* Squared distance from light k to the waypoint with 0-based index i.
LightToWp(ls, wps, k, i) == SqDist(ls[k].position, wps[i + 1])

\* lw is the index of the lights ls over the waypoints wps.
IsRouteIndex(lw, ls, wps) ==
    /\ Len(lw) = Len(ls)
    /\ \A k \in 1..Len(ls) :
        /\ Len(lw[k]) = Len(wps)
        /\ {lw[k][i] : i \in 1..Len(wps)} = 0..(Len(wps) - 1)
        /\ \A i, j \in 1..Len(wps) :
            i < j =>
                \/ LightToWp(ls, wps, k, lw[k][i]) < LightToWp(ls, wps, k, lw[k][j])
                \/ /\ LightToWp(ls, wps, k, lw[k][i]) = LightToWp(ls, wps, k, lw[k][j])
                   /\ lw[k][i] < lw[k][j]

\* C7: after index_lights, entry k of light_waypoints is a permutation of
\* all waypoint indices in non-decreasing squared distance from light k,
\* equal distances in ascending index order, one entry per light in light
\* order.  (Under SpecIndex the lights and waypoints are those of the build.)
C7_IndexSortedPermutation ==
    light_indexed => IsRouteIndex(light_waypoints, lights, waypoints)

\* C7 witness: two lights and three waypoints, two of them at the same
\* distance from the first light and not in index order by distance.
C7_Witness ==
    /\ light_indexed
    /\ waypoints = << <<1, 0, 0>>, <<0, 0, 0>>, <<1, 0, 0>> >>
    /\ Len(lights) = 2
    /\ lights[1].position = <<1, 0, 0>>
    /\ lights[2].position = <<0, 1, 0>>
    /\ light_waypoints[1] = <<0, 2, 1>>

\* C8: once light_indexed is true it stays true, and no later callback
\* changes light_waypoints or enters index_lights again.
C8_BuildOnceMonotonic ==
    [][light_indexed =>
        (light_indexed' /\ light_waypoints' = light_waypoints
            /\ build_count' = build_count)]_vars

\* C8 witness: after the build, traffic_cb has replaced the light list by
\* one of another length and the index still has the entries of the build.
C8_Witness ==
    /\ light_indexed /\ build_count = 1
    /\ event = "traffic_cb"
    /\ Len(light_waypoints) = 1
    /\ Len(lights) = 2

\* res is the nearest light ahead of pose p among ls: none if no light has
\* a positive dot product with the forward direction, else the candidate of
\* least distance, the lowest index among equals.
IsNearestForward(res, p, ls) ==
    LET fwd == EgoDir(p)
        cand == {i \in 1..Len(ls) : Dot(fwd, Sub(ls[i].position, p.position)) > 0}
        d(i) == SqDist(ls[i].position, p.position)
    IN  IF cand = {} THEN res = <<>>
        ELSE /\ res # <<>>
             /\ res[1] + 1 \in cand
             /\ \A j \in cand :
                    d(res[1] + 1) < d(j) \/ (d(res[1] + 1) = d(j) /\ res[1] + 1 <= j)

\* C9: get_closest_light returns the nearest light ahead of the vehicle,
\* the lowest index winning on equal distance, and None when no light has
\* a strictly positive dot product with the forward direction.
C9_NearestForwardLight ==
    event = "get_closest_light" => IsNearestForward(located, pose[1], lights)

\* C9 witness: vehicle at the origin facing +x, two lights ahead, the
\* second one nearer: the second is returned.
C9_Witness ==
    /\ event = "get_closest_light"
    /\ pose = <<Pose(<<0, 0, 0>>, Yaw0)>>
    /\ Len(lights) = 2
    /\ lights[1].position = <<1, 1, 0>>
    /\ lights[2].position = <<1, 0, 0>>
    /\ located = <<1>>

\* The forward axis (1,0,0) turned by each axis-aligned yaw.
Forward(q) ==
    CASE q = Yaw0 -> <<1, 0, 0>>
      [] q = Yaw90 -> <<0, 1, 0>>
      [] q = Yaw180 -> <<-1, 0, 0>>
      [] q = Yaw270 -> <<0, -1, 0>>

\* C10: the forward direction used by get_closest_light is (1,0,0) rotated
\* by the orientation of the pose, for each of the four axis-aligned yaws,
\* and a light it returns is ahead of the vehicle in that direction.
C10_ForwardIsRotatedAxis ==
    event = "get_closest_light" =>
        /\ EgoDir(pose[1]) = Forward(pose[1].orientation)
        /\ located # <<>> =>
              Dot(Forward(pose[1].orientation),
                  Sub(lights[located[1] + 1].position, pose[1].position)) > 0

\* The latest step was an image cycle that ran to its end.
CycleDone == event = "image_cb" /\ error = "none"

\* The raw colour observed by the latest completed image cycle.
Obs(h) == h[Len(h)]

\* Head waypoint of the light located, -1 when no light was located.
HeadWp(loc, lw) == IF loc = <<>> THEN -1 ELSE lw[loc[1] + 1][1]

\* C11: in every committing cycle (the observed colour equals the previous
\* cycle's and the counter has reached the threshold) last_state becomes the
\* observed colour, the value published is the head waypoint of the light
\* located in that cycle if the colour is RED and -1 otherwise, and last_wp
\* becomes the value published.
C11_CommitSetsStateAndWaypoint ==
    [][(CycleDone' /\ Obs(hist') = state /\ state_count >= STATE_COUNT_THRESHOLD)
        => LET v == IF Obs(hist') = RED THEN HeadWp(located', light_waypoints) ELSE -1
           IN  /\ last_state' = Obs(hist')
               /\ published' = <<v>>
               /\ last_wp' = v]_vars

\* C11 witness: GREEN has just been committed over a remembered RED stop at
\* waypoint 1, with a light located: -1 is published and remembered.
C11_Witness ==
    /\ CycleDone
    /\ hist = <<GREEN, GREEN, GREEN>>
    /\ located = <<0>>
    /\ prev_wp = 1
    /\ last_state = GREEN /\ last_wp = -1 /\ published = <<-1>>

\* C12: a completed image cycle whose observed colour differs from the
\* previous cycle's leaves state_count at zero (reset, not incremented).
C12_CounterZeroAfterChange ==
    (CycleDone /\ Len(hist) >= 2 /\ hist[Len(hist)] # hist[Len(hist) - 1])
    => state_count = 0

\* C12 amended: an image cycle whose colour differs from the previous
\* cycle's resets state_count and then increments it, ending at 1; a cycle
\* with the same colour increments it by one; no other step changes it.
C12_CounterResetThenIncrement ==
    [][IF CycleDone'
       THEN state_count' = (IF Obs(hist') # state THEN 1 ELSE state_count + 1)
       ELSE state_count' = state_count]_vars

\* C12 witness: a cycle that saw GREEN after two RED cycles ends with the
\* counter at 1.
C12_Witness ==
    /\ CycleDone
    /\ hist = <<RED, RED, GREEN>>
    /\ state = GREEN
    /\ state_count = 1

\* C13: pose_cb, waypoints_cb and traffic_cb publish nothing and leave
\* state, last_state, state_count and last_wp unchanged: only image_cb
\* publishes and changes the debounce state.
C13_OnlyImageCbPublishes ==
    [][event' \in {"pose_cb", "waypoints_cb", "traffic_cb"}
        => /\ published' = <<>>
           /\ UNCHANGED <<state, last_state, state_count, last_wp>>]_vars

\* C13 witness: each of the three callbacks has run after RED was committed
\* with waypoint 1, and the debounce state is as the commit left it.
C13_Witness ==
    /\ event = "pose_cb"
    /\ ~subscribed /\ light_indexed
    /\ last_state = RED /\ last_wp = 1 /\ state = RED
    /\ state_count = STATE_COUNT_THRESHOLD + 1
    /\ published = <<>>

\* C14: once waypoints_cb has stored the first delivery (it has
\* unregistered, or a route is held), no later step changes self.waypoints.
C14_WaypointsSetOnce ==
    [][(~subscribed \/ waypoints # <<>>) => waypoints' = waypoints]_vars

\* C14 witness: long after the first delivery (a RED stop has been
\* committed and the light list replaced) the route is still the one stored.
C14_Witness ==
    /\ ~subscribed
    /\ waypoints = RouteWaypoints
    /\ event = "traffic_cb"
    /\ last_state = RED /\ last_wp = 1

\* C15: a waypoints_cb or traffic_cb after which waypoints and lights are
\* both non-empty leaves the index built, building it in that step if it was
\* not built yet; one after which either is empty raises nothing and leaves
\* light_indexed and light_waypoints as they were; while light_indexed is
\* false light_waypoints is empty.
C15_BuiltWhenBothPresent ==
    [][event' \in {"waypoints_cb", "traffic_cb"}
        => /\ error' = "none"
           /\ IF waypoints' # <<>> /\ lights' # <<>>
              THEN /\ light_indexed'
                   /\ ~light_indexed =>
                        /\ IsRouteIndex(light_waypoints', lights', waypoints')
                        /\ build_count' = build_count + 1
              ELSE /\ light_indexed' = light_indexed
                   /\ light_waypoints' = light_waypoints
           /\ ~light_indexed' => light_waypoints' = <<>>]_vars

\* C15 witness: the lights came first and the index was built by
\* waypoints_cb, one entry per light.
C15_Witness ==
    /\ event = "waypoints_cb"
    /\ light_indexed /\ build_count = 1
    /\ Len(lights) = 2
    /\ light_waypoints = << <<1, 0, 2>>, <<2, 1, 0>> >>

\* C16: last_wp differs from -1 exactly when last_state is RED.
C16_StopIffRed == (last_wp # -1) <=> (last_state = RED)

\* C16 witness: RED is committed with waypoint 2 remembered.
C16_Witness == CycleDone /\ last_state = RED /\ last_wp = 2

\* C17: once the counter has passed the threshold (a commit has happened
\* for the colour observed), every further cycle with the same colour
\* commits again; with RED it publishes the head waypoint of the light
\* located in that very cycle, whichever light was located before.
C17_KeepsCommitting ==
    [][(CycleDone' /\ Obs(hist') = state /\ state_count > STATE_COUNT_THRESHOLD)
        => /\ state_count' > STATE_COUNT_THRESHOLD
           /\ last_state' = state
           /\ Obs(hist') = RED =>
                /\ published' = <<HeadWp(located', light_waypoints)>>
                /\ last_wp' = HeadWp(located', light_waypoints)]_vars

\* C17 witness: RED stayed, the stop was at waypoint 1 (light 0) before the
\* cycle and the cycle, locating light 1, published waypoint 2 at once.
C17_Witness ==
    /\ CycleDone
    /\ hist = <<RED, RED, RED>>
    /\ state_count > STATE_COUNT_THRESHOLD + 1
    /\ prev_wp = 1
    /\ located = <<1>>
    /\ published = <<2>> /\ last_wp = 2

\* v is -1 or the index of a waypoint that heads an entry of the index.
IsStopValue(v) ==
    \/ v = -1
    \/ /\ 0 <= v /\ v < Len(waypoints)
       /\ \E k \in 1..Len(light_waypoints) :
            light_waypoints[k] # <<>> /\ light_waypoints[k][1] = v

\* C18: every value published and the stored last_wp is -1 or a valid
\* waypoint index that is the head of some light's entry of the index.
C18_OutputInRange ==
    IsStopValue(last_wp) /\ \A i \in 1..Len(published) : IsStopValue(published[i])

\* C18 witness: waypoint 2, the head of the second light's entry, has just
\* been published.
C18_Witness ==
    /\ CycleDone
    /\ published = <<2>>
    /\ Len(light_waypoints) = 2
    /\ light_waypoints[2][1] = 2

\* C19: once the index is built, every light located by an image cycle has
\* an entry in light_waypoints and the cycle raises no IndexError, whatever
\* light lists traffic_cb has delivered since the build.
C19_LocatedLightIsIndexed ==
    (event = "image_cb" /\ light_indexed /\ located # <<>>)
    => (located[1] < Len(light_waypoints) /\ error = "none")

====
